---- MODULE Spec2Model ----
(***************************************************************************)
(* A model of cricket_dashboard.py: a Streamlit script that is executed    *)
(* top to bottom on every user interaction.  One run of the script is a    *)
(* sequence of steps (pc); summary.txt and the data files outlive a run.   *)
(*                                                                         *)
(* Encodings.  A DataFrame is a record [columns, rows]: the set of its     *)
(* column names and the sequence of its rows, each row a function from     *)
(* the column names to values.  A player name is a positive integer, its   *)
(* rank in lexicographic order; the missing value a left join fills in is  *)
(* NaN, a float, which Python cannot order against a str.  Column headers  *)
(* are given already stripped and lower-cased.  Metric values are          *)
(* integers.                                                               *)
(***************************************************************************)
EXTENDS Integers, Sequences, FiniteSets, TLC

VARIABLES
    pc,             \* position of the current script run
    directory_ids,  \* the ids all_players.csv listed when line 36 read it
    gemini_ready,   \* line 22 / 25
    all_players_df, \* line 36 / 41
    batting_df,     \* line 33: a list of frames, a DataFrame after line 71
    bowling_df,     \* line 33, line 72
    all_round_df,   \* line 33, line 73
    slice,          \* position of the loading loop, 1..9
    player_names,   \* line 83
    selected,       \* line 100
    show_tabs,      \* line 102
    tabs,           \* what each tab of line 105 shows
    messages,       \* what the run has put on the page, in order
    requests,       \* prompts this run has sent to the service
    summary_txt,    \* contents of summary.txt; <<"absent">> when no file
    setup_failed,   \* history: some run of the session failed the setup
    T, p, result    \* the pure-function specification of get_stats

vars == <<pc, directory_ids, gemini_ready, all_players_df, batting_df,
          bowling_df, all_round_df, slice, player_names, selected,
          show_tabs, tabs, messages, requests, summary_txt, setup_failed,
          T, p, result>>

run_vars == <<pc, directory_ids, gemini_ready, all_players_df, batting_df,
              bowling_df, all_round_df, slice, player_names, selected,
              show_tabs, tabs, messages, requests, summary_txt, setup_failed>>

(***************************************************************************)
(* Bounds of the model.                                                    *)
(***************************************************************************)
MaxId == 2          \* ids 1..MaxId occur in the stat files
MaxLen == 2         \* longest text the service returns
MaxRows == 2        \* rows of a table drawn for get_stats
MaxRuns == 1        \* largest metric value drawn for get_stats

(***************************************************************************)
(* Program constants.                                                      *)
(***************************************************************************)
NaN == 0
MaxSelections == 3

formats == <<"ODI", "TEST", "T20">>
Categories == <<"batting", "bowling", "all_round">>
Labels == <<"Batting", "Bowling", "All-Round">>

\* groupby("format") returns its groups sorted by key: "ODI" < "T20" < "TEST"
FormatsSorted == <<"ODI", "T20", "TEST">>

Ids == 1..MaxId

EmptyFrame == [columns |-> {}, rows |-> <<>>]

IsEmpty(df) == df.columns = {} \/ df.rows = <<>>

Range(s) == {s[i] : i \in DOMAIN s}

RECURSIVE SortedSeq(_)
SortedSeq(S) ==
    IF S = {} THEN <<>>
    ELSE LET m == CHOOSE x \in S : \A y \in S : x <= y
         IN <<m>> \o SortedSeq(S \ {m})

RECURSIVE Flatten(_)
Flatten(ss) == IF ss = <<>> THEN <<>> ELSE Head(ss) \o Flatten(Tail(ss))

RECURSIVE SumSeq(_)
SumSeq(s) == IF s = <<>> THEN 0 ELSE Head(s) + SumSeq(Tail(s))

(***************************************************************************)
(* The data files.  all_players.csv lists directory_ids, each with the     *)
(* name NameOf(id); a stat file of a category lists StatIds(category).     *)
(***************************************************************************)
NameOf(id) == id

DirectoryFile(ids) ==
    [columns |-> {"id", "name"},
     rows |-> LET s == SortedSeq(ids)
              IN [i \in DOMAIN s |-> [id |-> s[i], name |-> NameOf(s[i])]]]

StatIds(cat) ==
    CASE cat = "batting" -> Ids \ {MaxId}
      [] cat = "bowling" -> Ids \ {1}
      [] OTHER -> Ids

FormatNo(fmt) == CHOOSE i \in DOMAIN formats : formats[i] = fmt

StatRow(fmt, cat, id) ==
    IF cat = "batting"
    THEN [id |-> id, runs |-> 10 * id + FormatNo(fmt),
          average_score |-> id + FormatNo(fmt), strike_rate |-> 50 + id]
    ELSE [id |-> id, wk |-> id + FormatNo(fmt)]

StatFile(fmt, cat) ==
    [columns |-> IF cat = "batting"
                 THEN {"id", "runs", "average_score", "strike_rate"}
                 ELSE {"id", "wk"},
     rows |-> LET s == SortedSeq(StatIds(cat))
              IN [i \in DOMAIN s |-> StatRow(fmt, cat, s[i])]]

(***************************************************************************)
(* pandas operations                                                       *)
(***************************************************************************)
\* DataFrame.rename(columns={old: new}): a column that is absent is ignored
Rename(df, old, new) ==
    IF old \notin df.columns THEN df
    ELSE LET cols == (df.columns \ {old}) \cup {new}
         IN [columns |-> cols,
             rows |-> [i \in DOMAIN df.rows |->
                         [c \in cols |-> IF c = new THEN df.rows[i][old]
                                         ELSE df.rows[i][c]]]]

\* left.merge(right, on=key, how="left") raises KeyError when either side
\* has no column named key
MergeRaises(left, right, key) ==
    key \notin left.columns \/ key \notin right.columns

MergeLeft(left, right, key) ==
    LET cols == left.columns \cup right.columns
        Joined(l, r) == [c \in cols |-> IF c \in left.columns THEN l[c] ELSE r[c]]
        Unmatched(l) == [c \in cols |-> IF c \in left.columns THEN l[c] ELSE NaN]
        RowsFor(l) ==
            LET matches == SelectSeq(right.rows, LAMBDA r : r[key] = l[key])
            IN IF matches = <<>> THEN <<Unmatched(l)>>
               ELSE [j \in DOMAIN matches |-> Joined(l, matches[j])]
    IN [columns |-> cols,
        rows |-> Flatten([i \in DOMAIN left.rows |-> RowsFor(left.rows[i])])]

\* bat["format"] = fmt
WithFormat(df, fmt) ==
    LET cols == df.columns \cup {"format"}
    IN [columns |-> cols,
        rows |-> [i \in DOMAIN df.rows |->
                    [c \in cols |-> IF c = "format" THEN fmt ELSE df.rows[i][c]]]]

\* a concat that keeps the first frame alone
Concat_first_only(frames) ==
    IF frames = <<>> THEN EmptyFrame ELSE Head(frames)

\* pd.concat(frames, ignore_index=True) if frames else pd.DataFrame()
\* (the frames of one category carry the same columns)
Concat(frames) ==
    IF frames = <<>> THEN EmptyFrame
    ELSE [columns |-> UNION {frames[i].columns : i \in DOMAIN frames},
          rows |-> Flatten([i \in DOMAIN frames |-> frames[i].rows])]

(***************************************************************************)
(* Stat Aggregator (lines 88-92) and the selections pandas makes           *)
(***************************************************************************)
\* Series == value: a missing value equals nothing, itself included
EqPlayer(v, player) == v # NaN /\ player # NaN /\ v = player

\* Series.isin(values): a missing value is matched by a missing value
IsIn(v, values) == v \in values

\* player in df["player"].values: an elementwise == and any()
InValues(df, player) ==
    \E i \in DOMAIN df.rows : EqPlayer(df.rows[i]["player"], player)

\* the columns sum(numeric_only=True) keeps: player and format hold objects
NumericColumns(cols) == cols \ {"player", "format"}

\* rows.groupby("format").sum(numeric_only=True).reset_index()
GroupBySum(cols, rows) ==
    LET num == NumericColumns(cols)
        out == {"format"} \cup num
        group == [f \in Range(FormatsSorted) |->
                    SelectSeq(rows, LAMBDA r : r["format"] = f)]
        present == SelectSeq(FormatsSorted, LAMBDA f : group[f] # <<>>)
        Total(f, c) == SumSeq([i \in DOMAIN group[f] |-> group[f][i][c]])
    IN [columns |-> out,
        rows |-> [k \in DOMAIN present |->
                    [c \in out |-> IF c = "format" THEN present[k]
                                   ELSE Total(present[k], c)]]]

\* get_stats raises KeyError when it looks up a column the frame lacks
get_stats_raises(df, player) ==
    /\ ~IsEmpty(df)
    /\ \/ "player" \notin df.columns
       \/ InValues(df, player) /\ "format" \notin df.columns

\* get_stats without the filter on the player: every player's rows are summed
get_stats_unfiltered(df, player) ==
    IF IsEmpty(df) \/ ~InValues(df, player) THEN EmptyFrame
    ELSE GroupBySum(df.columns \ {"player"}, df.rows)

\* lines 88-92
get_stats(df, player) ==
    IF IsEmpty(df) \/ ~InValues(df, player) THEN EmptyFrame
    ELSE GroupBySum(df.columns \ {"player"},
                    SelectSeq(df.rows, LAMBDA r : EqPlayer(r["player"], player)))

(***************************************************************************)
(* One script run                                                          *)
(***************************************************************************)
Msg(level, about) == [level |-> level, about |-> about]

NumSlices == Len(formats) * Len(Categories)
SliceFormat(k) == formats[((k - 1) \div Len(Categories)) + 1]
SliceCategory(k) == Categories[((k - 1) % Len(Categories)) + 1]

NoTabs == [l \in Range(Labels) |-> [status |-> "none", table |-> <<>>, chart |-> <<>>]]

Absent == <<"absent">>

\* the texts response.text can be: one to MaxLen chunks
RECURSIVE Chunks(_)
Chunks(n) == IF n = 0 THEN <<>> ELSE Append(Chunks(n - 1), "x")

Texts == {Chunks(n) : n \in 1..MaxLen}

RunStart ==
    /\ pc = "setup"
    /\ directory_ids = {}
    /\ all_players_df = EmptyFrame
    /\ batting_df = <<>>
    /\ bowling_df = <<>>
    /\ all_round_df = <<>>
    /\ slice = 1
    /\ player_names = <<>>
    /\ selected = {}
    /\ show_tabs = FALSE
    /\ tabs = NoTabs
    /\ messages = <<>>
    /\ requests = <<>>

Idle == [done |-> FALSE, raised |-> FALSE, frame |-> EmptyFrame]

Init ==
    /\ RunStart
    /\ gemini_ready = FALSE
    /\ summary_txt = Absent
    /\ setup_failed = FALSE
    /\ T = EmptyFrame
    /\ p = NaN
    /\ result = Idle

\* lines 18-25
GeminiSetup ==
    /\ pc = "setup"
    /\ \E secret_ok \in BOOLEAN :
         /\ gemini_ready' = secret_ok
         /\ messages' = IF secret_ok THEN messages
                        ELSE Append(messages, Msg("error", <<"gemini_setup">>))
         /\ setup_failed' = (setup_failed \/ ~secret_ok)
    /\ pc' = "directory"
    /\ UNCHANGED <<directory_ids, all_players_df, batting_df, bowling_df,
                   all_round_df, slice, player_names, selected, show_tabs,
                   tabs, requests, summary_txt, T, p, result>>

\* lines 35-41: the file is read anew by every run
LoadDirectory ==
    /\ pc = "directory"
    /\ \/ \E ids \in SUBSET Ids :
            /\ directory_ids' = ids
            /\ all_players_df' = Rename(DirectoryFile(ids), "name", "player")
            /\ UNCHANGED messages
       \/ /\ all_players_df' = EmptyFrame
          /\ messages' = Append(messages,
                                Msg("error", <<"all_players.csv", "FileNotFoundError">>))
          /\ UNCHANGED directory_ids
    /\ pc' = "load"
    /\ UNCHANGED <<gemini_ready, batting_df, bowling_df,
                   all_round_df, slice, player_names, selected, show_tabs,
                   tabs, requests, summary_txt, setup_failed, T, p, result>>

\* one try block of the loop of lines 43-69: the exception it catches
\* ("none" when it appends a frame), and the frame it appends
SliceException(readable, fmt, cat, directory) ==
    IF ~readable THEN "FileNotFoundError"
    ELSE IF MergeRaises(StatFile(fmt, cat), directory, "id") THEN "KeyError"
    ELSE "none"

SliceFrame(fmt, cat, directory) ==
    WithFormat(MergeLeft(StatFile(fmt, cat), directory, "id"), fmt)

LoadSlice ==
    /\ pc = "load"
    /\ LET fmt == SliceFormat(slice)
           cat == SliceCategory(slice)
       IN \E readable \in BOOLEAN :
            LET e == SliceException(readable, fmt, cat, all_players_df)
                ok == e = "none"
                frame == SliceFrame(fmt, cat, all_players_df)
            IN /\ batting_df' = IF ok /\ cat = "batting"
                                THEN Append(batting_df, frame) ELSE batting_df
               /\ bowling_df' = IF ok /\ cat = "bowling"
                                THEN Append(bowling_df, frame) ELSE bowling_df
               /\ all_round_df' = IF ok /\ cat = "all_round"
                                  THEN Append(all_round_df, frame) ELSE all_round_df
               /\ messages' = IF ok THEN messages
                              ELSE Append(messages, Msg("warning", <<fmt, cat, e>>))
    /\ slice' = slice + 1
    /\ pc' = IF slice = NumSlices THEN "index" ELSE "load"
    /\ UNCHANGED <<directory_ids, gemini_ready, all_players_df, player_names,
                   selected, show_tabs, tabs, requests, summary_txt,
                   setup_failed, T, p, result>>

\* lines 78-83.  sorted() compares a str with a float when the set holds
\* both, and raises TypeError; line 83 is outside the try of line 78.
HasPlayerColumn(df) == "player" \in df.columns

PlayerValues(df) == {df.rows[i]["player"] : i \in DOMAIN df.rows}

AllPlayers(bat, bowl, allr) ==
    IF HasPlayerColumn(bat) /\ HasPlayerColumn(bowl) /\ HasPlayerColumn(allr)
    THEN PlayerValues(bat) \cup PlayerValues(bowl) \cup PlayerValues(allr)
    ELSE {}

SortedRaises(S) == NaN \in S /\ S # {NaN}

\* lines 71-83: the lists become the unified tables, then the Player Index
PlayerIndex ==
    /\ pc = "index"
    /\ batting_df' = Concat(batting_df)
    /\ bowling_df' = Concat(bowling_df)
    /\ all_round_df' = Concat(all_round_df)
    /\ LET all_players == AllPlayers(batting_df', bowling_df', all_round_df')
       IN IF SortedRaises(all_players)
          THEN /\ pc' = "crashed"
               /\ messages' = Append(messages, Msg("exception", <<"TypeError">>))
               /\ UNCHANGED player_names
          ELSE /\ pc' = "select"
               /\ player_names' = SortedSeq(all_players)
               /\ UNCHANGED messages
    /\ UNCHANGED <<directory_ids, gemini_ready, all_players_df, slice, selected,
                   show_tabs, tabs, requests, summary_txt, setup_failed,
                   T, p, result>>

\* lines 112-131, one tab
Metrics(label) ==
    IF label = "Batting" THEN <<"runs", "average_score", "strike_rate">>
    ELSE <<"wk">>

TabRaises(label, df, sel) ==
    \/ "player" \notin df.columns
    \/ /\ \E i \in DOMAIN df.rows : IsIn(df.rows[i]["player"], sel)
       /\ \/ "format" \notin df.columns
          \/ \E k \in DOMAIN Metrics(label) :
               Metrics(label)[k] \notin NumericColumns(df.columns)

TabView(label, df, sel) ==
    LET compare_df == SelectSeq(df.rows, LAMBDA r : IsIn(r["player"], sel))
        players == SortedSeq(sel)
        subset == [player \in sel |->
                     GroupBySum(df.columns,
                                SelectSeq(compare_df,
                                          LAMBDA r : EqPlayer(r["player"], player))).rows]
        Trace(metric, player) ==
            [player |-> player, metric |-> metric,
             x |-> [i \in DOMAIN subset[player] |-> subset[player][i]["format"]],
             y |-> [i \in DOMAIN subset[player] |-> subset[player][i][metric]]]
    IN IF compare_df = <<>>
       THEN [status |-> "norecords", table |-> <<>>, chart |-> <<>>]
       ELSE [status |-> "rendered", table |-> compare_df,
             chart |-> Flatten([k \in DOMAIN Metrics(label) |->
                          [j \in DOMAIN players |-> Trace(Metrics(label)[k], players[j])]])]

TableOf(label, bat, bowl, allr) ==
    CASE label = "Batting" -> bat
      [] label = "Bowling" -> bowl
      [] OTHER -> allr

\* lines 104-131: the tabs in order, up to the first that raises
Tabs(bat, bowl, allr, sel) ==
    LET Df(k) == TableOf(Labels[k], bat, bowl, allr)
        Raises(k) == TabRaises(Labels[k], Df(k), sel)
        Reached(k) == \A j \in 1..(k - 1) : ~Raises(j)
        No(l) == CHOOSE k \in DOMAIN Labels : Labels[k] = l
    IN [l \in Range(Labels) |->
          IF ~Reached(No(l)) THEN [status |-> "none", table |-> <<>>, chart |-> <<>>]
          ELSE IF Raises(No(l)) THEN [status |-> "raised", table |-> <<>>, chart |-> <<>>]
          ELSE TabView(l, Df(No(l)), sel)]

TabMessages(view) ==
    Flatten([k \in DOMAIN Labels |->
        CASE view[Labels[k]].status = "raised" -> <<Msg("exception", <<"KeyError">>)>>
          [] view[Labels[k]].status = "norecords" -> <<Msg("warning", <<"no_records", Labels[k]>>)>>
          [] OTHER -> <<>>])

\* lines 97-131: the selector offers player_names and at most
\* max_selections of them are chosen; the button's return value is an input
\* of the run; then the comparison view
ComparisonView ==
    /\ pc = "select"
    /\ \E sel \in SUBSET Range(player_names) :
         /\ Cardinality(sel) <= MaxSelections
         /\ selected' = sel
    /\ show_tabs' \in BOOLEAN
    /\ LET warned == IF player_names = <<>>
                     THEN Append(messages, Msg("error", <<"no_player_names">>))
                     ELSE messages
       IN IF show_tabs' /\ selected' # {}
          THEN /\ tabs' = Tabs(batting_df, bowling_df, all_round_df, selected')
               /\ messages' = warned \o TabMessages(tabs')
               /\ pc' = IF \E l \in Range(Labels) : tabs'[l].status = "raised"
                        THEN "crashed" ELSE "summary"
          ELSE /\ pc' = "summary"
               /\ messages' = warned
               /\ UNCHANGED tabs
    /\ UNCHANGED <<directory_ids, gemini_ready, all_players_df, batting_df,
                   bowling_df, all_round_df, slice, player_names, requests,
                   summary_txt, setup_failed, T, p, result>>

(***************************************************************************)
(* Summary Requester (lines 136-160)                                       *)
(***************************************************************************)
\* lines 141-147: the lines of the prompt; row.get(metric, '-') is the
\* metric, or the placeholder (here -1) when the row has no such column
RowGet(row, col) == IF col \in DOMAIN row THEN row[col] ELSE 0 - 1

PromptRaises(bat, bowl, sel) ==
    \E player \in sel : get_stats_raises(bat, player) \/ get_stats_raises(bowl, player)

StatLines(kind, stats, player, metrics) ==
    [i \in DOMAIN stats.rows |->
        [kind |-> kind, player |-> player, format |-> stats.rows[i]["format"],
         values |-> [k \in DOMAIN metrics |-> RowGet(stats.rows[i], metrics[k])]]]

BuildPrompt(bat, bowl, sel) ==
    LET players == SortedSeq(sel)
        For(player) ==
            <<[kind |-> "Player", player |-> player, format |-> "", values |-> <<>>]>>
            \o StatLines("Batting", get_stats(bat, player), player,
                         <<"runs", "average_score", "strike_rate">>)
            \o StatLines("Bowling", get_stats(bowl, player), player, <<"wk">>)
    IN Flatten([j \in DOMAIN players |-> For(players[j])])

\* the file opened with "a": the text is added to what the file holds
WriteFile_append(old, text) == IF old = <<"absent">> THEN text ELSE old \o text

\* open("summary.txt", "w") then f.write(text): the file holds text alone
WriteFile(old, text) == text

\* what a write that fails after open() has truncated the file can leave:
\* a proper prefix of the text, the empty file included
PartialWrites(text) == {SubSeq(text, 1, k) : k \in 0..Len(text)} \ ({text} \ {<<>>})

\* the outcomes of lines 149-154: generate_content raises (unreachable),
\* response.text raises (malformed), open raises, write raises, or all
\* succeed; error is the exception line 159 catches
SummaryOutcomes(old) ==
    {[error |-> e, text |-> <<>>, file |-> old] : e \in {"unreachable", "malformed"}}
    \cup {[error |-> "none", text |-> t, file |-> WriteFile(old, t)] : t \in Texts}
    \cup {[error |-> "open_fails", text |-> t, file |-> old] : t \in Texts}
    \cup UNION {{[error |-> "write_fails", text |-> t, file |-> q] :
                    q \in PartialWrites(t)} : t \in Texts}

\* the summary displayed before the file is written
SummaryMessages_display_first(o) ==
    IF o.error \in {"none", "open_fails", "write_fails"}
    THEN <<Msg("success", <<"gemini_summary">>), Msg("markdown", o.text)>>
         \o (IF o.error = "none" THEN <<Msg("info", <<"saved">>)>>
             ELSE <<Msg("error", <<"gemini_generation", o.error>>)>>)
    ELSE <<Msg("error", <<"gemini_generation", o.error>>)>>

\* lines 156-158, or line 160
SummaryMessages(o) ==
    IF o.error = "none"
    THEN <<Msg("success", <<"gemini_summary">>), Msg("markdown", o.text),
           Msg("info", <<"saved">>)>>
    ELSE <<Msg("error", <<"gemini_generation", o.error>>)>>

\* line 136 without its test of gemini_ready
SummaryEnabled_ignores_ready(sel, ready) == sel # {}

\* line 136
SummaryEnabled(sel, ready) == sel # {} /\ ready

\* A click reruns the script and only the clicked button returns True in
\* that run: the summary button can return True only when show_tabs is False.
Summary ==
    /\ pc = "summary"
    /\ pc' = "done"
    /\ IF SummaryEnabled(selected, gemini_ready)
       THEN LET shown == Append(messages, Msg("subheader", <<"gemini">>))
                prompt == BuildPrompt(batting_df, bowling_df, selected)
            IN \E pressed \in IF show_tabs THEN {FALSE} ELSE BOOLEAN :
                 IF ~pressed
                 THEN /\ messages' = shown
                      /\ UNCHANGED <<requests, summary_txt>>
                 ELSE IF PromptRaises(batting_df, bowling_df, selected)
                 THEN /\ messages' = Append(shown, Msg("error", <<"gemini_generation", "KeyError">>))
                      /\ UNCHANGED <<requests, summary_txt>>
                 ELSE /\ requests' = Append(requests, prompt)
                      /\ \E o \in SummaryOutcomes(summary_txt) :
                           /\ summary_txt' = o.file
                           /\ messages' = shown \o SummaryMessages(o)
       ELSE UNCHANGED <<messages, requests, summary_txt>>
    /\ UNCHANGED <<directory_ids, gemini_ready, all_players_df, batting_df,
                   bowling_df, all_round_df, slice, player_names, selected,
                   show_tabs, tabs, setup_failed, T, p, result>>

\* the next interaction runs the script again, from the top; summary.txt
\* and the data files are what is left of the run before
Rerun ==
    /\ pc \in {"done", "crashed"}
    /\ pc' = "setup"
    /\ all_players_df' = EmptyFrame
    /\ batting_df' = <<>>
    /\ bowling_df' = <<>>
    /\ all_round_df' = <<>>
    /\ slice' = 1
    /\ player_names' = <<>>
    /\ selected' = {}
    /\ show_tabs' = FALSE
    /\ tabs' = NoTabs
    /\ messages' = <<>>
    /\ requests' = <<>>
    /\ gemini_ready' = FALSE
    /\ directory_ids' = {}
    /\ UNCHANGED <<summary_txt, setup_failed, T, p, result>>

Next ==
    \/ GeminiSetup
    \/ LoadDirectory
    \/ LoadSlice
    \/ PlayerIndex
    \/ ComparisonView
    \/ Summary
    \/ Rerun

Spec == Init /\ [][Next]_vars

(***************************************************************************)
(* get_stats as a pure function: a table and a player are drawn, and       *)
(* get_stats is applied to them.                                           *)
(***************************************************************************)
AggPlayers == {NaN, 1, 2}

AggColumns == {"id", "player", "format", "runs"}

AggRows ==
    {[id |-> pl + 1, player |-> pl, format |-> f, runs |-> r] :
        pl \in AggPlayers, f \in Range(formats), r \in 0..MaxRuns}

RECURSIVE RowSeqs(_)
RowSeqs(n) ==
    IF n = 0 THEN {<<>>}
    ELSE LET shorter == RowSeqs(n - 1)
         IN shorter \cup {Append(s, r) : s \in {q \in shorter : Len(q) = n - 1}, r \in AggRows}

\* the unified tables: a frame without columns (no file of the category
\* loaded), or rows under the columns a loaded category has
UnifiedTables == {EmptyFrame} \cup {[columns |-> AggColumns, rows |-> s] : s \in RowSeqs(MaxRows)}

InitAgg ==
    /\ RunStart
    /\ gemini_ready = FALSE
    /\ summary_txt = Absent
    /\ setup_failed = FALSE
    /\ T \in UnifiedTables
    /\ p \in AggPlayers
    /\ result = Idle

Aggregate ==
    /\ ~result.done
    /\ result' = [done |-> TRUE, raised |-> get_stats_raises(T, p),
                  frame |-> IF get_stats_raises(T, p) THEN EmptyFrame ELSE get_stats(T, p)]
    /\ UNCHANGED <<T, p>>
    /\ UNCHANGED run_vars

NextAgg == Aggregate

SpecAgg == InitAgg /\ [][NextAgg]_vars

(***************************************************************************)
(* Properties                                                              *)
(***************************************************************************)
Count(level) == Cardinality({i \in DOMAIN messages : messages[i].level = level})

HasMsg(level, about) == \E i \in DOMAIN messages : messages[i] = Msg(level, about)

\* the run is past line 83: the three tables and the Player Index exist
PastIndex == pc \in {"select", "summary", "done", "crashed"}

\* the run has just left the loader and line 83; the tables are not
\* assigned again in the rest of the run
AfterLoader == pc = "select" \/ (pc = "crashed" /\ selected = {} /\ ~show_tabs)

DirectoryFailed == HasMsg("error", <<"all_players.csv", "FileNotFoundError">>)

IndexRaised == HasMsg("exception", <<"TypeError">>)

\* the warnings line 51, 60 or 69 raised for a file
Warnings(fmt, cat) ==
    {i \in DOMAIN messages :
        /\ messages[i].level = "warning"
        /\ Len(messages[i].about) = 3
        /\ messages[i].about[1] = fmt
        /\ messages[i].about[2] = cat}

Unreadable(fmt, cat) == HasMsg("warning", <<fmt, cat, "FileNotFoundError">>)

CategoryTable(cat) ==
    CASE cat = "batting" -> batting_df
      [] cat = "bowling" -> bowling_df
      [] OTHER -> all_round_df

\* the row a stat row is to become: its own fields, the name the directory
\* gives its id (none when the directory lacks the id), and its format
JoinedRow(fmt, cat, id) ==
    LET r == StatRow(fmt, cat, id)
    IN [c \in DOMAIN r \cup {"player", "format"} |->
          CASE c = "player" -> IF id \in directory_ids THEN NameOf(id) ELSE NaN
            [] c = "format" -> fmt
            [] OTHER -> r[c]]

JoinedSlice(fmt, cat) ==
    LET ids == SortedSeq(StatIds(cat))
    IN [i \in DOMAIN ids |-> JoinedRow(fmt, cat, ids[i])]

RECURSIVE SumOver(_, _, _)
SumOver(rows, S, c) ==
    IF S = {} THEN 0
    ELSE LET i == CHOOSE j \in S : TRUE
         IN rows[i][c] + SumOver(rows, S \ {i}, c)

\* the rows of T that are p's and of format f
RowsOf(f) ==
    {i \in DOMAIN T.rows : p # NaN /\ T.rows[i]["player"] = p /\ T.rows[i]["format"] = f}

FormatsOfP == {f \in Range(formats) : RowsOf(f) # {}}

\* C1: get_stats(T, p) never raises; it returns exactly one row for each
\* format among the rows of T whose player equals p (none when T is empty or
\* p has no rows), no row for any other format, and every numeric column of
\* a returned row is the sum of that column over p's rows of that format.
C1_GetStats ==
    result.done =>
        /\ ~result.raised
        /\ {result.frame.rows[i]["format"] : i \in DOMAIN result.frame.rows} = FormatsOfP
        /\ Len(result.frame.rows) = Cardinality(FormatsOfP)
        /\ \A i \in DOMAIN result.frame.rows :
             \A c \in {"id", "runs"} :
               result.frame.rows[i][c] = SumOver(T.rows, RowsOf(result.frame.rows[i]["format"]), c)

C1_Witness ==
    /\ result.done
    /\ Len(T.rows) = 2
    /\ p # NaN
    /\ T.rows[1]["player"] = p /\ T.rows[2]["player"] = p
    /\ T.rows[1]["format"] = T.rows[2]["format"]
    /\ Len(result.frame.rows) = 1
    /\ result.frame.rows[1]["runs"] = 2

\* C2: a stat row whose id the directory lacks is in its category's table
\* with an empty player, and the empty player is not in player_names, so the
\* selector never offers it and it is never selected.
C2_MissingIdExcluded ==
    (PastIndex /\ ~DirectoryFailed) =>
        /\ \A k \in DOMAIN formats : \A c \in DOMAIN Categories :
             ~Unreadable(formats[k], Categories[c]) =>
                \A id \in StatIds(Categories[c]) :
                    JoinedRow(formats[k], Categories[c], id)
                        \in Range(CategoryTable(Categories[c]).rows)
        /\ ~IndexRaised
        /\ NaN \notin Range(player_names)
        /\ NaN \notin selected

\* C3: a script run completes whatever the files and the user do: no
\* exception is left uncaught.
C3_NoUncaughtException == pc # "crashed"

\* C4: when all_players.csv cannot be read, every stat file that can be read
\* is still joined and its rows are in its category's table, without a name.
C4_DirectoryFailureKeepsStats ==
    (PastIndex /\ DirectoryFailed) =>
        \A k \in DOMAIN formats : \A c \in DOMAIN Categories :
            ~Unreadable(formats[k], Categories[c]) =>
                \E i \in DOMAIN CategoryTable(Categories[c]).rows :
                    /\ CategoryTable(Categories[c]).rows[i]["format"] = formats[k]
                    /\ CategoryTable(Categories[c]).rows[i]["player"] = NaN

\* C5: when the directory loads, a stat file that cannot be read raises one
\* warning and is alone in missing from the result: each file is either
\* warned about once, as unreadable, or loaded, and each category's table is
\* the concatenation, in the order of formats, of its files that loaded, and
\* the frame without columns when none did.
C5_SliceFailureIsLocal ==
    (AfterLoader /\ ~DirectoryFailed) =>
        \A c \in DOMAIN Categories :
            LET cat == Categories[c]
                loaded == SelectSeq(formats, LAMBDA f : Warnings(f, cat) = {})
            IN /\ \A k \in DOMAIN formats :
                    /\ Cardinality(Warnings(formats[k], cat)) <= 1
                    /\ Warnings(formats[k], cat) # {} => Unreadable(formats[k], cat)
               /\ IF loaded = <<>>
                  THEN CategoryTable(cat) = EmptyFrame
                  ELSE /\ CategoryTable(cat).rows =
                            Flatten([k \in DOMAIN loaded |-> JoinedSlice(loaded[k], cat)])
                       /\ CategoryTable(cat).columns =
                            StatFile(loaded[1], cat).columns \cup {"player", "format"}

C5_Witness ==
    /\ AfterLoader /\ ~DirectoryFailed
    /\ Unreadable("ODI", "batting")
    /\ ~Unreadable("TEST", "batting") /\ ~Unreadable("T20", "batting")
    /\ Len(batting_df.rows) = 2 * Cardinality(StatIds("batting"))
    /\ all_round_df = EmptyFrame

\* C6: player_names is the ascending union of the players of the three
\* tables when each has a player column, and is empty, nothing raised, when
\* one of them has none.
C6_PlayerIndex ==
    PastIndex =>
        /\ ~IndexRaised
        /\ IF HasPlayerColumn(batting_df) /\ HasPlayerColumn(bowling_df)
              /\ HasPlayerColumn(all_round_df)
           THEN /\ Range(player_names) = PlayerValues(batting_df)
                        \cup PlayerValues(bowling_df) \cup PlayerValues(all_round_df)
                /\ \A i \in DOMAIN player_names : \A j \in DOMAIN player_names :
                        i < j => player_names[i] < player_names[j]
           ELSE player_names = <<>>

\* C7 as stated: a prompt is sent only in a run whose setup succeeded and in
\* which a player is selected, and once a setup of the session has failed no
\* prompt is sent any more.
C7_DisabledForSession ==
    /\ requests # <<>> => (gemini_ready /\ selected # {})
    /\ setup_failed => requests = <<>>

\* C7, amended: a prompt is sent, and summary.txt is written, only in a run
\* whose own setup succeeded and in which a player is selected; a run whose
\* setup fails sends no prompt and leaves summary.txt alone, and goes on to
\* the loader.
C7_DisabledForRun ==
    [][/\ (Len(requests') > Len(requests) \/ summary_txt' # summary_txt)
            => (pc = "summary" /\ gemini_ready /\ selected # {})
       /\ pc = "setup" => pc' = "directory"]_vars

C7_Witness ==
    /\ pc = "done"
    /\ ~gemini_ready
    /\ HasMsg("error", <<"gemini_setup">>)
    /\ selected # {}
    /\ tabs["Batting"].status = "rendered"
    /\ requests = <<>>

\* C8: a run that sent a prompt shows either one error and neither the
\* success banner, the summary text nor the 'saved' confirmation, or no
\* error and all three, and then summary.txt holds the text that is shown.
C8_FailureShowsNoSummary ==
    (pc = "done" /\ requests # <<>>) =>
        \/ /\ Count("error") = 1
           /\ \E e \in {"unreachable", "malformed", "open_fails", "write_fails"} :
                HasMsg("error", <<"gemini_generation", e>>)
           /\ Count("success") = 0 /\ Count("markdown") = 0 /\ Count("info") = 0
        \/ /\ Count("error") = 0
           /\ Count("success") = 1 /\ Count("markdown") = 1 /\ Count("info") = 1
           /\ HasMsg("markdown", summary_txt)

C8_Witness ==
    /\ pc = "done"
    /\ requests # <<>>
    /\ HasMsg("error", <<"gemini_generation", "write_fails">>)
    /\ Count("markdown") = 0

\* C9 as stated: summary.txt, when it exists, holds the whole text of a
\* response (the most recent successful one).
C9_FileHoldsAResponse == summary_txt = Absent \/ summary_txt \in Texts

Prefixes(text) == {SubSeq(text, 1, k) : k \in 0..Len(text)}

\* C9, amended: a request that succeeds leaves in summary.txt its own text
\* and nothing else; one whose generation call fails, or whose open() fails,
\* leaves the file as it was; one whose write fails leaves a prefix of a
\* response, possibly empty; nothing else changes the file.
C9_LastWriteWins ==
    [][/\ summary_txt' # summary_txt => Len(requests') > Len(requests)
       /\ Len(requests') > Len(requests) =>
            LET last == messages'[Len(messages')]
            IN CASE last.level = "info" ->
                      messages'[Len(messages') - 1] = Msg("markdown", summary_txt')
                 [] last.about[2] \in {"unreachable", "malformed", "open_fails"} ->
                      summary_txt' = summary_txt
                 [] OTHER ->
                      \E t \in Texts : summary_txt' \in Prefixes(t) \ {t}]_vars

C9_Witness ==
    /\ pc = "done"
    /\ requests # <<>>
    /\ HasMsg("markdown", Chunks(MaxLen))
    /\ summary_txt = Chunks(MaxLen)

====
